---- MODULE Spec2Model ----
(***************************************************************************)
(* A model of src/utils/perfagg.py: the counter scheduler                  *)
(* (perfmon_coalesce, perfmon_emit, as run by perfmon_filter/pmc_filter)   *)
(* and the recombiner (join_prof).                                         *)
(*                                                                         *)
(* A counter token such as TCC_HIT[3] is the record                        *)
(*   [pre |-> "TCC", id |-> n, ch |-> 3]                                   *)
(* pre is the text before the first "_", id stands for the rest of the     *)
(* name (its integer order is the lexicographic order of the names) and    *)
(* ch is the bracketed channel index, -1 when the token has none.          *)
(***************************************************************************)
EXTENDS Integers, Sequences, FiniteSets, TLC

VARIABLES
    pc,             \* position of the scheduling run
    soc,            \* the architecture identifier handed to the scheduler
    dir_ok,         \* whether <workload>/perfmon exists when coalescing starts
    nread,          \* number of input lines read so far
    lines_seen,     \* the set of input lines read so far
    pmc_list,       \* the bucket structure of perfmon_coalesce
    level_files,    \* level-counter files in the perfmon directory: name -> line
    pmc_perf_txt,   \* pmc_perf.txt: whether it is written, and its pass lines
    jpc,            \* position of join_prof
    join_type,      \* the join-key strategy
    na_float,       \* whether cumcount gives NaN, and so floats, next to missing names
    verbose,        \* the verbose flag
    disk,           \* per-pass result files on disk: file name -> table
    disk0,          \* the per-pass result files as they were before the call
    files,          \* glob result: the files join_prof iterates over
    nfile,          \* number of per-pass files merged so far
    df,             \* the merged frame
    log_file,       \* lines written to log_file
    out             \* the unified table: whether it is written, and its rows

svars == <<pc, soc, dir_ok, nread, lines_seen, pmc_list, level_files, pmc_perf_txt>>
jvars == <<jpc, join_type, na_float, verbose, disk, disk0, files, nfile, df, log_file, out>>
vars == <<svars, jvars>>

\* ------------------------------------------------------------------ helpers

Range(s) == {s[i] : i \in DOMAIN s}

Max(a, b) == IF a >= b THEN a ELSE b

SetMax(S) == CHOOSE m \in S : \A x \in S : x <= m

\* math.ceil(a / b) for a >= 0, b >= 1
Ceil(a, b) == (a + b - 1) \div b

\* python's s[lo : lo + n]
SliceLong(s, lo, n) == SubSeq(s, lo + 1, IF lo + n + 1 <= Len(s) THEN lo + n + 1 ELSE Len(s))

Slice(s, lo, n) == SubSeq(s, lo + 1, IF lo + n <= Len(s) THEN lo + n ELSE Len(s))

RECURSIVE Flatten(_)
Flatten(ss) == IF ss = <<>> THEN <<>> ELSE Head(ss) \o Flatten(Tail(ss))

\* ------------------------------------------------- the architecture profile

perfmon_config ==
    [vega10 |-> [SQ |-> 8, TA |-> 2, TD |-> 2, TCP |-> 4, TCC |-> 4, CPC |-> 2,
                 CPF |-> 2, SPI |-> 2, GRBM |-> 2, GDS |-> 4, TCC_channels |-> 16],
     mi50   |-> [SQ |-> 8, TA |-> 2, TD |-> 2, TCP |-> 4, TCC |-> 4, CPC |-> 2,
                 CPF |-> 2, SPI |-> 2, GRBM |-> 2, GDS |-> 4, TCC_channels |-> 16],
     mi100  |-> [SQ |-> 8, TA |-> 2, TD |-> 2, TCP |-> 4, TCC |-> 4, CPC |-> 2,
                 CPF |-> 2, SPI |-> 2, GRBM |-> 2, GDS |-> 4, TCC_channels |-> 32],
     mi200  |-> [SQ |-> 8, TA |-> 2, TD |-> 2, TCP |-> 4, TCC |-> 4, CPC |-> 2,
                 CPF |-> 2, SPI |-> 2, GRBM |-> 2, GDS |-> 4, TCC_channels |-> 32]]

\* The keys of pmc_list other than TCC and TCC2, in the dict's insertion order.
BlockOrder == <<"SQ", "GRBM", "TCP", "TA", "TD", "SPI", "CPC", "CPF", "GDS">>

OrdBlocks == Range(BlockOrder)

Cap(s, b) == perfmon_config[s][b]

Channels(s) == 0 .. (perfmon_config[s]["TCC_channels"] - 1)

\* ------------------------------------------------------------------ tokens

Tok(p, n) == [pre |-> p, id |-> n, ch |-> -1]

TokCh(n, c) == [pre |-> "TCC", id |-> n, ch |-> c]

\* SQ_ACCUM_PREV_HIRES
ACCUM == [pre |-> "SQ", id |-> 0, ch |-> -1]

\* str.upper() on the prefixes the inputs use
Upper(p) == CASE p = "ta" -> "TA" [] p = "sqc" -> "SQC" [] OTHER -> p

\* counter.split(sep="_")[0].upper(), SQC folded into SQ
IP_block(c) == LET b == Upper(c.pre) IN IF b = "SQC" THEN "SQ" ELSE b

\* ------------------------------------------------------------- input lines

\* A line of a counter specification file: pmc tells whether the text left
\* after stripping the comment matches ^pmc:(.*), toks is m.group(1).split().
PmcLine(t) == [pmc |-> TRUE, toks |-> t]

SQ_LEVEL == Tok("SQ", 20)

Lines ==
    { \* ten SQ/SQC counters on two lines, the second with two aggregated TCC counters
      PmcLine([k \in 1..5 |-> Tok("SQ", k)]),
      PmcLine(<<Tok("SQC", 6), Tok("sqc", 7), Tok("SQ", 8), Tok("SQ", 9), Tok("SQ", 10),
                Tok("TCC", 1), Tok("TCC", 2)>>),
      \* three TA counters, one of them repeated
      PmcLine(<<Tok("TA", 1), Tok("ta", 2), Tok("TA", 1), Tok("TA", 3)>>),
      \* four aggregated TCC counters
      PmcLine([k \in 1..4 |-> Tok("TCC", k + 1)]),
      \* one counter on the channels 0..31
      PmcLine([k \in 1..32 |-> TokCh(3, k - 1)]),
      \* another counter on the channels 0..15
      PmcLine([k \in 1..16 |-> TokCh(4, k - 1)]),
      \* counters of channel 0, out of name order
      PmcLine(<<TokCh(2, 0), TokCh(1, 0), TokCh(6, 0), TokCh(5, 0)>>),
      \* counters of channel 40, out of name order
      PmcLine(<<TokCh(9, 40), TokCh(1, 40)>>),
      \* a level counter with its accumulator
      PmcLine(<<SQ_LEVEL, ACCUM>>),
      \* an ordinary counter on the line of a level counter
      PmcLine(<<Tok("SQ", 11), SQ_LEVEL, ACCUM>>),
      \* the level counter among ordinary counters, without the accumulator
      PmcLine(<<SQ_LEVEL, Tok("SQ", 1)>>),
      \* the accumulator first on its line
      PmcLine(<<ACCUM, Tok("SQ", 12)>>),
      \* a counter of no known block
      PmcLine(<<Tok("TA", 1), Tok("XYZ", 1)>>),
      \* a directive, comment or empty line
      [pmc |-> FALSE, toks |-> <<>>] }

MaxLines == 3

Socs == {"mi50", "mi200", "gfx1100"}

\* ------------------------------------------------------- perfmon_coalesce

NoList == [blk |-> <<>>, TCC |-> <<>>, TCC2 |-> <<>>]

\* pmc_list as built before any file is read
InitList(s) == [blk  |-> [b \in OrdBlocks |-> <<>>],
                TCC  |-> <<>>,
                TCC2 |-> [c \in Channels(s) |-> <<>>]]

\* The tokens of toks that one line adds to one bucket, in the order in which
\* "for counter in counters" meets them: those at the positions at of toks (the
\* tokens that belong to the bucket) that the bucket does not hold yet, each at
\* its first occurrence.
NewIn(bucket, toks, at) ==
    LET first == {i \in at :
                    /\ toks[i] \notin Range(bucket)
                    /\ \A j \in 1..(i - 1) : toks[j] # toks[i]}
    IN  [k \in 1..Cardinality(first) |->
            toks[CHOOSE i \in first : Cardinality({j \in first : j <= i}) = k]]

\* "for counter in counters": every token of toks appended to its bucket unless
\* the bucket holds it ("if counter not in ...: append"), a channel key that
\* pmc_list["TCC2"] lacks being added with the token as its first counter
StoreAll(pl, toks) ==
    LET tcc == {i \in DOMAIN toks : IP_block(toks[i]) = "TCC"}
        chans == {toks[i].ch : i \in tcc} \ {-1}
        old(k) == IF k \in DOMAIN pl.TCC2 THEN pl.TCC2[k] ELSE <<>>
    IN  [blk  |-> [b \in OrdBlocks |->
                      pl.blk[b] \o NewIn(pl.blk[b], toks,
                                         {i \in DOMAIN toks : IP_block(toks[i]) = b})],
         TCC  |-> pl.TCC \o NewIn(pl.TCC, toks, {i \in tcc : toks[i].ch = -1}),
         TCC2 |-> [k \in DOMAIN pl.TCC2 \cup chans |->
                      old(k) \o NewIn(old(k), toks, {i \in tcc : toks[i].ch = k})]]

\* pmc_list[IP_block] raises KeyError
UnknownBlock(c) == IP_block(c) \notin OrdBlocks \cup {"TCC"}

\* counters.index("SQ_ACCUM_PREV_HIRES"), 1-based
IndexOf(toks, c) == CHOOSE i \in DOMAIN toks : toks[i] = c /\ \A j \in 1..(i - 1) : toks[j] # c

\* counters[nindex - 1]: python's index -1 is the last element
LevelCounter(toks) ==
    LET n == IndexOf(toks, ACCUM) IN IF n = 1 THEN toks[Len(toks)] ELSE toks[n - 1]

SortedById(s) == \A i, j \in DOMAIN s : i < j => s[i].id <= s[j].id

\* list.sort() of one channel's tokens
SortTokens(s) == SortSeq(s, LAMBDA a, b : a.id < b.id)

\* "for ch in range(TCC_channels): pmc_list['TCC2'][str(ch)].sort()"
SortChannels(pl, s) ==
    [pl EXCEPT !.TCC2 = [k \in DOMAIN pl.TCC2 |->
                            IF k \in Channels(s) THEN SortTokens(pl.TCC2[k]) ELSE pl.TCC2[k]]]

StartCoalesce ==
    /\ pc = "start"
    /\ IF soc \in DOMAIN perfmon_config
       THEN /\ pmc_list' = InitList(soc)
            /\ pc' = "coalescing"
       ELSE /\ pc' = "KeyError"
            /\ UNCHANGED pmc_list
    /\ UNCHANGED <<soc, dir_ok, nread, lines_seen, level_files, pmc_perf_txt, jvars>>

ReadLine ==
    /\ pc = "coalescing"
    /\ nread < MaxLines
    /\ \E line \in Lines :
         /\ nread' = nread + 1
         /\ lines_seen' = lines_seen \cup {line}
         /\ IF ~line.pmc
            THEN UNCHANGED <<pc, pmc_list, level_files>>
            ELSE IF ACCUM \in Range(line.toks)
            THEN IF dir_ok
                 THEN /\ level_files' = (LevelCounter(line.toks) :> line.toks) @@ level_files
                      /\ UNCHANGED <<pc, pmc_list>>
                 ELSE /\ pc' = "FileNotFoundError"
                      /\ UNCHANGED <<pmc_list, level_files>>
            ELSE IF \E i \in DOMAIN line.toks : UnknownBlock(line.toks[i])
            THEN /\ pc' = "KeyError"
                 /\ UNCHANGED <<pmc_list, level_files>>
            ELSE /\ pmc_list' = StoreAll(pmc_list, line.toks)
                 /\ UNCHANGED <<pc, level_files>>
    /\ UNCHANGED <<soc, dir_ok, pmc_perf_txt, jvars>>

EndCoalesce ==
    /\ pc = "coalescing"
    /\ pmc_list' = SortChannels(pmc_list, soc)
    /\ pc' = "coalesced"
    /\ UNCHANGED <<soc, dir_ok, nread, lines_seen, level_files, pmc_perf_txt, jvars>>

\* ------------------------------------------------------------ perfmon_emit

\* niter
NiterNoChannels(pl, s) ==
    Max(SetMax({Ceil(Len(pl.blk[b]), Cap(s, b)) : b \in OrdBlocks}),
        Ceil(Len(pl.TCC), Cap(s, "TCC")))

Niter(pl, s) ==
    Max(SetMax({Ceil(Len(pl.blk[b]), Cap(s, b)) : b \in OrdBlocks}),
        Ceil(Len(pl.TCC), Cap(s, "TCC"))
          + Ceil(SetMax({Len(pl.TCC2[c]) : c \in Channels(s)}), Cap(s, "TCC")))

\* the non-TCC counters of pass iter, block after block
RECURSIVE OrdCounters(_, _, _, _)
OrdCounters(pl, s, iter, k) ==
    IF k > Len(BlockOrder) THEN <<>>
    ELSE Slice(pl.blk[BlockOrder[k]], iter * Cap(s, BlockOrder[k]), Cap(s, BlockOrder[k]))
           \o OrdCounters(pl, s, iter, k + 1)

\* the per-channel counters at tcc2_index of the channels lo..hi, channel after
\* channel (the range is split in halves to keep the evaluation shallow)
RECURSIVE ChanRange(_, _, _, _, _)
ChanRange(pl, s, idx, lo, hi) ==
    IF lo > hi THEN <<>>
    ELSE IF lo = hi THEN Slice(pl.TCC2[lo], idx * Cap(s, "TCC"), Cap(s, "TCC"))
    ELSE ChanRange(pl, s, idx, lo, (lo + hi) \div 2)
           \o ChanRange(pl, s, idx, (lo + hi) \div 2 + 1, hi)

\* "for ch in range(TCC_channels): tcc_counters += ..."
ChanCounters(pl, s, idx) == ChanRange(pl, s, idx, 0, perfmon_config[s]["TCC_channels"] - 1)

\* the pass lines from pass iter on
RECURSIVE EmitFrom(_, _, _, _, _)
EmitFrom(pl, s, iter, niter, tcc2_index) ==
    IF iter >= niter THEN <<>>
    ELSE LET tcc == Slice(pl.TCC, iter * Cap(s, "TCC"), Cap(s, "TCC")) IN
         IF tcc # <<>>
         THEN <<OrdCounters(pl, s, iter, 1) \o tcc>>
                \o EmitFrom(pl, s, iter + 1, niter, tcc2_index)
         ELSE <<OrdCounters(pl, s, iter, 1) \o ChanCounters(pl, s, tcc2_index)>>
                \o EmitFrom(pl, s, iter + 1, niter, tcc2_index + 1)

Emit ==
    /\ pc = "coalesced"
    /\ IF dir_ok
       THEN /\ pmc_perf_txt' = [written |-> TRUE,
                                lines |-> EmitFrom(pmc_list, soc, 0, Niter(pmc_list, soc), 0)]
            /\ pc' = "done"
       ELSE /\ pc' = "FileNotFoundError"
            /\ UNCHANGED pmc_perf_txt
    /\ UNCHANGED <<soc, dir_ok, nread, lines_seen, pmc_list, level_files, jvars>>

JIdle ==
    /\ jpc = "idle" /\ join_type = "kernel" /\ na_float = FALSE /\ verbose = FALSE
    /\ disk = <<>> /\ disk0 = <<>> /\ files = <<>> /\ nfile = 0
    /\ df = <<>> /\ log_file = <<>> /\ out = [written |-> FALSE, rows |-> <<>>]

\* perfmon_filter leaves an empty perfmon directory; pmc_filter creates it when
\* it is absent and removes it, without creating it again, when it is present.
SchedInit ==
    /\ pc = "start"
    /\ soc \in Socs
    /\ dir_ok \in BOOLEAN
    /\ nread = 0
    /\ lines_seen = {}
    /\ pmc_list = NoList
    /\ level_files = <<>>
    /\ pmc_perf_txt = [written |-> FALSE, lines |-> <<>>]
    /\ JIdle

SchedNext == StartCoalesce \/ ReadLine \/ EndCoalesce \/ Emit

SchedSpec == SchedInit /\ [][SchedNext]_vars

\* ------------------------------------------------- the scheduler's claims

Passes == pmc_perf_txt.lines

Coalesced == pc \in {"coalesced", "done"}

\* every bucket of the structure perfmon_coalesce returns
AllBuckets == {pmc_list.blk[b] : b \in OrdBlocks} \cup {pmc_list.TCC}
                \cup {pmc_list.TCC2[k] : k \in DOMAIN pmc_list.TCC2}

\* the buckets perfmon_emit reads
EmittedBuckets == {pmc_list.blk[b] : b \in OrdBlocks} \cup {pmc_list.TCC}
                    \cup {pmc_list.TCC2[k] : k \in Channels(soc)}

Tokens(buckets) == UNION {Range(bk) : bk \in buckets}

\* the counters of a bucket on one pass line, in the line's order
SliceOn(line, bucket) == SelectSeq(line, LAMBDA t : t \in Range(bucket))

\* a bucket's slices over the passes 0..N-1, concatenated in pass order
SlicesOf(bucket) == Flatten([i \in DOMAIN Passes |-> SliceOn(Passes[i], bucket)])

RoundTrip(bucket) ==
    /\ SlicesOf(bucket) = bucket
    /\ \A t \in Range(bucket) : Cardinality({i \in DOMAIN Passes : t \in Range(Passes[i])}) = 1

IsAgg(t) == IP_block(t) = "TCC" /\ t.ch = -1

IsChan(t) == IP_block(t) = "TCC" /\ t.ch # -1

\* the numbers of counters a pass line holds: of an ordinary block, aggregated
\* TCC counters, per-channel TCC counters, and those of one channel
CountBlock(line, b) == Cardinality({i \in DOMAIN line : IP_block(line[i]) = b})

CountAgg(line) == Cardinality({i \in DOMAIN line : IsAgg(line[i])})

CountChan(line) == Cardinality({i \in DOMAIN line : IsChan(line[i])})

CountChanOf(line, k) == Cardinality({i \in DOMAIN line : IsChan(line[i]) /\ line[i].ch = k})

\* C1: every bucket perfmon_coalesce returns, whatever its channel key, is
\* written out by perfmon_emit: each of its counters is on exactly one pass
\* line and its slices, concatenated in pass order, give back the bucket.
C1_RoundTripAllBuckets == pc = "done" => \A bk \in AllBuckets : RoundTrip(bk)

\* The round trip of the buckets perfmon_emit reads (the ordinary blocks, the
\* aggregated TCC bucket, the channels 0..TCC_channels-1).
EmittedRoundTrip == pc = "done" => \A bk \in EmittedBuckets : RoundTrip(bk)

\* C2: no pass line holds more counters of a block than the block's capacity:
\* at most perfmon_config[soc][B] of an ordinary block B, at most
\* perfmon_config[soc]["TCC"] aggregated TCC counters, and per-channel
\* counters only on a line without aggregated ones, at most
\* perfmon_config[soc]["TCC"] of any one channel.
C2_Capacity ==
    pc = "done" =>
        \A i \in DOMAIN Passes :
            /\ \A b \in OrdBlocks :
                  CountBlock(Passes[i], b) <= Cap(soc, b)
            /\ CountAgg(Passes[i]) <= Cap(soc, "TCC")
            /\ CountAgg(Passes[i]) > 0 => CountChan(Passes[i]) = 0
            /\ \A k \in DOMAIN pmc_list.TCC2 :
                  CountChanOf(Passes[i], k) <= Cap(soc, "TCC")

\* A run in which the capacity cut two buckets: a pass line with exactly
\* capacity counters of an ordinary block that has more, and a pass line with
\* exactly capacity counters of a channel that has more.
C2_Witness ==
    /\ pc = "done"
    /\ \E i \in DOMAIN Passes : \E b \in OrdBlocks :
          /\ Len(pmc_list.blk[b]) > Cap(soc, b)
          /\ CountBlock(Passes[i], b) = Cap(soc, b)
    /\ \E i \in DOMAIN Passes : \E k \in Channels(soc) :
          /\ Len(pmc_list.TCC2[k]) > Cap(soc, "TCC")
          /\ CountChanOf(Passes[i], k) = Cap(soc, "TCC")

\* every bucket holds no more counters than its block's capacity
AllBucketsFit ==
    /\ \A b \in OrdBlocks : Len(pmc_list.blk[b]) <= Cap(soc, b)
    /\ Len(pmc_list.TCC) <= Cap(soc, "TCC")
    /\ \A k \in DOMAIN pmc_list.TCC2 : Len(pmc_list.TCC2[k]) <= Cap(soc, "TCC")

\* C3 as stated: whenever every bucket fits its block's capacity there is
\* exactly one pass line and it holds every bucketed counter.
C3_OnePassWhenFit ==
    (pc = "done" /\ AllBucketsFit) =>
        /\ Len(Passes) = 1
        /\ Tokens(AllBuckets) \subseteq Range(Passes[1])

HasOrd == \E b \in OrdBlocks : pmc_list.blk[b] # <<>>

HasAgg == pmc_list.TCC # <<>>

HasChan == \E k \in Channels(soc) : pmc_list.TCC2[k] # <<>>

\* C3 as amended: whenever every bucket fits its block's capacity, there is
\* no pass line when the buckets perfmon_emit reads are all empty, there are
\* two (the aggregated TCC counters on the first, the per-channel ones on the
\* second) when the aggregated bucket and a channel 0..TCC_channels-1 both
\* hold counters, and otherwise there is exactly one, which holds every
\* counter of the buckets perfmon_emit reads and no other.
C3_PassesWhenFit ==
    (pc = "done" /\ AllBucketsFit) =>
        /\ Len(Passes) = (IF HasAgg /\ HasChan THEN 2
                          ELSE IF HasOrd \/ HasAgg \/ HasChan THEN 1 ELSE 0)
        /\ Len(Passes) = 1 => Range(Passes[1]) = Tokens(EmittedBuckets)
        /\ Len(Passes) = 2 =>
              /\ Range(Passes[1]) \cup Range(Passes[2]) = Tokens(EmittedBuckets)
              /\ CountChan(Passes[1]) = 0
              /\ CountAgg(Passes[2]) = 0

\* One pass line that holds the counters of several buckets that fit.
C3_Witness ==
    /\ pc = "done" /\ AllBucketsFit
    /\ Len(Passes) = 1
    /\ HasOrd /\ HasChan
    /\ Range(Passes[1]) = Tokens(EmittedBuckets)

\* the passes a block requires on its own
Requirement(len, cap) == Ceil(len, cap)

MaxChannelSize == SetMax({Len(pmc_list.TCC2[k]) : k \in DOMAIN pmc_list.TCC2})

\* C4: the number of pass lines is the largest requirement of any block,
\* ceil(B/C) for an ordinary block and ceil(aggregated/C) + ceil(largest
\* channel bucket/C) for TCC; no pass line is without a counter; ten SQ
\* counters at capacity 8 deciding the count give counters[0:8] and [8:10].
C4_PassCount ==
    pc = "done" =>
        /\ Len(Passes) =
              Max(SetMax({Requirement(Len(pmc_list.blk[b]), Cap(soc, b)) : b \in OrdBlocks}),
                  Requirement(Len(pmc_list.TCC), Cap(soc, "TCC"))
                    + Requirement(MaxChannelSize, Cap(soc, "TCC")))
        /\ \A i \in DOMAIN Passes : Passes[i] # <<>>
        /\ (Len(pmc_list.blk["SQ"]) = 10 /\ Len(Passes) = 2) =>
              /\ SliceOn(Passes[1], pmc_list.blk["SQ"]) = SubSeq(pmc_list.blk["SQ"], 1, 8)
              /\ SliceOn(Passes[2], pmc_list.blk["SQ"]) = SubSeq(pmc_list.blk["SQ"], 9, 10)

\* The pass count with the largest channel bucket taken, as perfmon_emit takes
\* it, over the channels 0..TCC_channels-1 only.
EmittedPassCount ==
    pc = "done" =>
        Len(Passes) =
            Max(SetMax({Requirement(Len(pmc_list.blk[b]), Cap(soc, b)) : b \in OrdBlocks}),
                Requirement(Len(pmc_list.TCC), Cap(soc, "TCC"))
                  + Requirement(SetMax({Len(pmc_list.TCC2[k]) : k \in Channels(soc)}),
                                Cap(soc, "TCC")))

\* The sub-buckets of the channels 0..TCC_channels-1 are sorted.
EmittedChannelsSorted == Coalesced => \A k \in Channels(soc) : SortedById(pmc_list.TCC2[k])

\* every channel perfmon_emit slices has a counter at position p
AllChannelsHave(p) == \A k \in Channels(soc) : Len(pmc_list.TCC2[k]) >= p

\* C5: after perfmon_coalesce every per-channel sub-bucket is sorted, and at
\* every position at which all channels have a counter the counter name is
\* the same in all channels.
C5_SortedAndAligned ==
    Coalesced =>
        /\ \A k \in DOMAIN pmc_list.TCC2 : SortedById(pmc_list.TCC2[k])
        /\ \A p \in 1..MaxChannelSize :
              AllChannelsHave(p) =>
                  \A k1, k2 \in Channels(soc) :
                      pmc_list.TCC2[k1][p].id = pmc_list.TCC2[k2][p].id

PmcLinesSeen == {l \in lines_seen : l.pmc}

\* the tokens immediately followed by SQ_ACCUM_PREV_HIRES on some input line
LevelTokens ==
    UNION {{l.toks[i] : i \in {i \in 1..(Len(l.toks) - 1) : l.toks[i + 1] = ACCUM}}
             : l \in PmcLinesSeen}

InputTokens == UNION {Range(l.toks) : l \in PmcLinesSeen}

OrdinaryTokens == InputTokens \ (LevelTokens \cup {ACCUM})

\* C6: after perfmon_coalesce no bucket holds SQ_ACCUM_PREV_HIRES or a level
\* counter, and every ordinary counter token of the inputs is in a bucket.
C6_LevelCountersApart ==
    Coalesced =>
        /\ Tokens(AllBuckets) \cap (LevelTokens \cup {ACCUM}) = {}
        /\ OrdinaryTokens \subseteq Tokens(AllBuckets)

\* C9: when scheduling ends on an unknown architecture identifier or on a
\* counter of an unknown block, nothing has been written: there is neither a
\* pmc_perf.txt nor a level-counter file in the perfmon directory.
C9_NoOutputOnConfigError ==
    pc = "KeyError" => (~pmc_perf_txt.written /\ DOMAIN level_files = {})

\* ------------------------------------------------------------- join_prof

\* A row of a per-pass result table carries the columns KernelName and grd;
\* the other columns do not decide which rows are joined. NaN is what
\* pd.read_csv gives for an empty KernelName cell.
NaN == "NaN"

Rows == {[KernelName |-> "kA", grd |-> 1], [KernelName |-> "kA", grd |-> 2],
         [KernelName |-> NaN, grd |-> 1]}

MaxRows == 3

Tables == UNION {[1..n -> Rows] : n \in 0..MaxRows}

\* glob.glob(workload_dir + "/pmc_perf_*.csv") lists the files that exist
FileOrder == <<"pmc_perf_0.csv", "pmc_perf_1.csv">>

Disks == UNION {[S -> Tables] : S \in SUBSET Range(FileOrder)}

JoinTypes == {"kernel", "grid", "name"}

\* groupby(...).cumcount(): the number of earlier rows of the same group
cumcountNone(t, i, cols) == 0

cumcount(t, i, cols) ==
    Cardinality({j \in 1..(i - 1) :
                    /\ t[j].KernelName = t[i].KernelName
                    /\ "grd" \in cols => t[j].grd = t[i].grd})

\* key.astype(str): groupby leaves the rows without a kernel name out of every
\* group; a pandas that gives them the count NaN (na_float) makes the counts
\* of the whole table floats, written "0.0", and one that counts them as a
\* group of their own leaves them integers, written "0".
HasMissing(t) == \E i \in DOMAIN t : t[i].KernelName = NaN

AllMissing(t) == Len(t) > 0 /\ \A i \in DOMAIN t : t[i].KernelName = NaN

CountFmt(fl, t) == IF fl /\ HasMissing(t) THEN "float" ELSE "int"

\* The key string of row i. KernelName + " - " [+ grd + " - "] + count is
\* read back unambiguously from its right end (count and grd are numerals),
\* so the key is the record of its parts, grd being 0 when it is not part of
\* the key; NaN + <string> is NaN in pandas, so a row without a kernel name
\* has the key NaN whatever its grd and count.
NaNKey == [KernelName |-> NaN, grd |-> 0, n |-> 0, fmt |-> "int"]

KeyOf(jt, fl, t, i) ==
    IF t[i].KernelName = NaN THEN NaNKey
    ELSE IF jt = "kernel"
    THEN [KernelName |-> t[i].KernelName, grd |-> 0,
          n |-> cumcount(t, i, {"KernelName"}), fmt |-> CountFmt(fl, t)]
    ELSE [KernelName |-> t[i].KernelName, grd |-> t[i].grd,
          n |-> cumcount(t, i, {"KernelName", "grd"}), fmt |-> CountFmt(fl, t)]

\* _df with its key column; the columns KernelName and grd are kept as the
\* lists of their copies (KernelName, KernelName_1, ...)
WithKey(jt, fl, t) ==
    [i \in DOMAIN t |-> [key |-> KeyOf(jt, fl, t, i),
                         KernelName |-> <<t[i].KernelName>>,
                         grd |-> <<t[i].grd>>]]

\* pd.merge(df, _df, how="inner", on="key"): every pair of a left and a right
\* row with the same key (NaN keys match each other), in the order of the left
\* rows and, for one left row, of the right rows
Merge(left, right) ==
    LET M == {m \in (DOMAIN left) \X (DOMAIN right) : left[m[1]].key = right[m[2]].key}
        rank(m) == Cardinality({x \in M : x[1] < m[1] \/ (x[1] = m[1] /\ x[2] <= m[2])})
        row(m) == [key |-> left[m[1]].key,
                   KernelName |-> left[m[1]].KernelName \o right[m[2]].KernelName,
                   grd |-> left[m[1]].grd \o right[m[2]].grd]
    IN  [k \in 1..Cardinality(M) |-> row(CHOOSE m \in M : rank(m) = k)]

\* the column families compared across the passes
duplicate_cols == <<"gpu", "grd", "wgr", "lds", "scr", "arch_vgpr", "accum_vgpr", "spgr">>

\* test_df_column_equality on the copies of one family; the rows carry no
\* differing values in families other than grd
test_df_column_equality(d, family) ==
    family = "grd" => \A i \in DOMAIN d : \A k \in DOMAIN d[i].grd : d[i].grd[k] = d[i].grd[1]

\* the line written to log_file for each family
LogLines(d) ==
    [k \in DOMAIN duplicate_cols |->
        [family |-> duplicate_cols[k],
         warning |-> ~test_df_column_equality(d, duplicate_cols[k])]]

\* == on two cells of a KernelName column: NaN equals nothing
CellEq(a, b) == a # NaN /\ b # NaN /\ a = b

\* "for k in namekeys[1:]: assert (df[namekeys[0]] == df[k]).all()"
NoAssert(d) == TRUE

NamesAgree(d) ==
    \A i \in DOMAIN d : \A k \in 2..Len(d[i].KernelName) :
        CellEq(d[i].KernelName[1], d[i].KernelName[k])

\* the table written to out: of each family the original copy is kept
Unified(d) == [i \in DOMAIN d |-> [KernelName |-> d[i].KernelName[1], grd |-> d[i].grd[1]]]

\* "if not verbose: for file in files: os.remove(file)"
RemoveAlways(dsk, v, fs) == [f \in DOMAIN dsk \ Range(fs) |-> dsk[f]]

Remove(dsk, v, fs) == IF v THEN dsk ELSE [f \in DOMAIN dsk \ Range(fs) |-> dsk[f]]

\* one iteration of "for i, file in enumerate(files)". A KernelName column
\* whose cells are all empty is read as a column of floats, and whether
\* <float column> + " - " raises TypeError or gives NaN is pandas' choice.
ReadMerge ==
    /\ jpc = "reading"
    /\ nfile < Len(files)
    /\ IF join_type \notin {"kernel", "grid"}
       THEN /\ jpc' = "SystemExit"
            /\ UNCHANGED <<nfile, df>>
       ELSE \/ /\ AllMissing(disk[files[nfile + 1]])
               /\ jpc' = "TypeError"
               /\ UNCHANGED <<nfile, df>>
            \/ /\ nfile' = nfile + 1
               /\ df' = IF nfile = 0 THEN WithKey(join_type, na_float, disk[files[1]])
                        ELSE Merge(df, WithKey(join_type, na_float, disk[files[nfile + 1]]))
               /\ UNCHANGED jpc
    /\ UNCHANGED <<join_type, na_float, verbose, disk, disk0, files, log_file, out, svars>>

\* the rest of join_prof, from "duplicate_cols = ..." on
Finish ==
    /\ jpc = "reading"
    /\ nfile = Len(files)
    /\ IF nfile = 0
       THEN \* df is None: df.columns raises AttributeError
            /\ jpc' = "AttributeError"
            /\ UNCHANGED <<log_file, out, disk>>
       ELSE /\ log_file' = log_file \o LogLines(df)
            /\ IF NamesAgree(df)
               THEN /\ out' = [written |-> TRUE, rows |-> Unified(df)]
                    /\ disk' = Remove(disk, verbose, files)
                    /\ jpc' = "done"
               ELSE /\ jpc' = "AssertionError"
                    /\ UNCHANGED <<out, disk>>
    /\ UNCHANGED <<join_type, na_float, verbose, disk0, files, nfile, df, svars>>

SIdle ==
    /\ pc = "idle" /\ soc = "mi50" /\ dir_ok = TRUE /\ nread = 0 /\ lines_seen = {}
    /\ pmc_list = NoList /\ level_files = <<>>
    /\ pmc_perf_txt = [written |-> FALSE, lines |-> <<>>]

JoinInit ==
    /\ jpc = "reading"
    /\ join_type \in JoinTypes
    /\ na_float \in BOOLEAN
    /\ verbose \in BOOLEAN
    /\ disk \in Disks
    /\ disk0 = disk
    /\ files = SelectSeq(FileOrder, LAMBDA f : f \in DOMAIN disk)
    /\ nfile = 0
    /\ df = <<>>
    /\ log_file = <<>>
    /\ out = [written |-> FALSE, rows |-> <<>>]
    /\ SIdle

JoinNext == ReadMerge \/ Finish

JoinSpec == JoinInit /\ [][JoinNext]_vars

\* --------------------------------------------------- the recombiner's claims

JoinEnded == jpc \in {"done", "AssertionError", "AttributeError", "SystemExit", "TypeError"}

\* the key-based join of all the per-pass tables is made
Joined == nfile = Len(files) /\ nfile > 0

ValidJoin == join_type \in {"kernel", "grid"}

KeysOf(t) == {KeyOf(join_type, na_float, t, i) : i \in DOMAIN t}

\* the keys that occur in every per-pass table
CommonKeys ==
    {k \in UNION {KeysOf(disk0[f]) : f \in DOMAIN disk0} :
        \A f \in DOMAIN disk0 : k \in KeysOf(disk0[f])}

RowsWithKey(k) == {i \in DOMAIN df : df[i].key = k}

NameMismatch ==
    /\ Joined
    /\ \E i \in DOMAIN df : \E k \in 2..Len(df[i].KernelName) :
          \/ df[i].KernelName[1] = NaN
          \/ df[i].KernelName[k] = NaN
          \/ df[i].KernelName[1] # df[i].KernelName[k]

\* C8 as stated: when two copies of the kernel-name column disagree on a
\* joined row, join_prof ends in the fatal error with no unified table
\* written and before any other side effect.
C8_FatalBeforeAnySideEffect ==
    (JoinEnded /\ NameMismatch) =>
        /\ jpc = "AssertionError"
        /\ ~out.written
        /\ disk = disk0
        /\ log_file = <<>>

\* C8 as amended: when two copies of the kernel-name column disagree on a
\* joined row, join_prof ends in the fatal error with no unified table
\* written and no per-pass file removed; the log lines of the comparison of
\* the duplicate column families, which comes first, are written.
C8_FatalBeforeOutput ==
    (JoinEnded /\ NameMismatch) =>
        /\ jpc = "AssertionError"
        /\ ~out.written
        /\ disk = disk0
        /\ log_file = LogLines(df)

\* A fatal end on two tables that both hold a row with a kernel name and a
\* row without one.
C8_Witness ==
    /\ jpc = "AssertionError" /\ NameMismatch
    /\ Len(files) = 2 /\ Len(df) >= 1
    /\ \A f \in DOMAIN disk0 : ~AllMissing(disk0[f])
    /\ ~out.written /\ disk = disk0 /\ log_file = LogLines(df)

\* C10 as stated: on every path every per-pass result file that existed
\* before the call still exists, with the same contents, after it.
C10_InputsKept == JoinEnded => disk = disk0

\* C10 as amended: join_prof never changes the contents of a per-pass result
\* file; the files are all still there on every path but the successful one
\* with verbose off, on which join_prof removes every one of them after it has
\* written the unified table; besides the unified table it writes only the
\* lines of the column comparison to log_file.
C10_InputsKeptOrRemoved ==
    /\ \A f \in DOMAIN disk : f \in DOMAIN disk0 /\ disk[f] = disk0[f]
    /\ (JoinEnded /\ (jpc # "done" \/ verbose)) => disk = disk0
    /\ (jpc = "done" /\ ~verbose) => (DOMAIN disk = {} /\ out.written)
    /\ out.written => jpc = "done"
    /\ log_file = <<>> \/ log_file = LogLines(df)

\* A successful join with verbose off that removed two per-pass files.
C10_Witness ==
    /\ jpc = "done" /\ ~verbose /\ out.written
    /\ Cardinality(DOMAIN disk0) = 2 /\ DOMAIN disk = {}

\* ------------------------------------------------ the two runs together

Init == SchedInit \/ JoinInit

Next == SchedNext \/ JoinNext

Spec == Init /\ [][Next]_vars

====
